---- MODULE Spec2Model ----
(***************************************************************************)
(* A model of control/rover.py: the Environment (pose, breadcrumbs,        *)
(* contours, point cloud), the Scanner (accumulated scans and the object   *)
(* segmentation of find_obj_clouds) and the Rover that drives both.        *)
(*                                                                         *)
(* Rover.move and Rover.rotate block on the actuator (oi.move, oi.rotate), *)
(* which may also raise, so they are modelled statement by statement: the  *)
(* variable `call` names the running method and `pc` the statement of its  *)
(* body that runs next.  Every other method is one action.                 *)
(***************************************************************************)
EXTENDS Integers, Sequences, FiniteSets

VARIABLES
    _loc,              \* Environment._loc: <<x, y>>, each a real (see below)
    _direction,        \* Environment._direction, in degrees
    breadcrumbs,       \* Environment.breadcrumbs
    bumps, cliffs, drops, tape,   \* Environment's danger lists
    ir_obs, sonar_obs, \* Environment's point observations
    contours,          \* Environment.contours (finalized)
    volatile_contours, \* Environment.volatile_contours
    nplots,            \* number of line objects view.plot has created
    stderr,            \* what add_danger wrote to sys.stderr
    scans,             \* Rover.scanner.scans (the current Scanner)
    comb_scans,        \* find_obj_clouds: the merged scans after the sort
    obj_list,          \* find_obj_clouds: the value returned
    raised,            \* the exception the last call ended with, or "none"
    rv,                \* the value Rover.scan returned last
    call, pc,          \* the running Rover method and its next statement
    dist, stop_reason, delta,     \* locals of Rover.move / Rover.rotate
    ncalls,            \* number of calls made so far
    history            \* the log of calls and statements executed so far

env_vars == <<_loc, _direction, breadcrumbs, bumps, cliffs, drops, tape,
              ir_obs, sonar_obs, contours, volatile_contours, nplots, stderr>>
seg_vars == <<comb_scans, obj_list>>
ctl_vars == <<call, pc, dist, stop_reason, delta>>
vars == <<env_vars, scans, seg_vars, raised, rv, ctl_vars, ncalls, history>>

(***************************************************************************)
(* Bounds of the model.                                                    *)
(***************************************************************************)
MaxCalls == 3          \* calls made on the Rover and its parts in one run
MaxBatches == 2        \* scans accumulated in one Scanner (segmenter runs)
MaxBatchLen == 2       \* samples of one generated scan (segmenter runs)

(***************************************************************************)
(* Floating point values.  NaN is the no-return reading; sensor readings   *)
(* and distances are never negative, which leaves -1 free to stand for it. *)
(***************************************************************************)
NaN == -1

isnan(x) == x = NaN

(***************************************************************************)
(* The reals the Environment computes are sums of terms r*cos(a) and       *)
(* r*sin(a) with r and a (degrees) integers.  Such a real is kept exactly, *)
(* as the set of its terms <<k, n>>, standing for n*cos(k degrees), with   *)
(* 0 <= k < 90 and n # 0, at most one term for each k (cos(0) = 1, so      *)
(* <<0, n>> is the integer n).  Two reals with the same terms are equal.   *)
(* The rounding of floating point arithmetic is not modelled.              *)
(***************************************************************************)
Zero == {}

NaNReal == {<<NaN, NaN>>}

\* cos(a degrees) = s * cos(k degrees), as <<k, s>>, with 0 <= k <= 90;
\* cos(90) is 0.
CosTerm(a) ==
    LET m == a % 360
    IN  IF m <= 90 THEN <<m, IF m = 90 THEN 0 ELSE 1>>
        ELSE IF m <= 180 THEN <<180 - m, -1>>
        ELSE IF m < 270 THEN <<m - 180, -1>>
        ELSE <<360 - m, IF m = 270 THEN 0 ELSE 1>>

\* r * np.cos(a * pi / 180)
RCos(r, a) ==
    LET t == CosTerm(a)
    IN  IF isnan(r) THEN NaNReal
        ELSE IF t[2] = 0 \/ r = 0 THEN Zero
        ELSE {<<t[1], t[2] * r>>}

\* r * np.sin(a * pi / 180)
RSin(r, a) == RCos(r, a - 90)

Coef(X, k) == IF \E t \in X : t[1] = k THEN (CHOOSE t \in X : t[1] = k)[2] ELSE 0

\* X + Y
RAdd(X, Y) ==
    IF X = NaNReal \/ Y = NaNReal THEN NaNReal
    ELSE LET ks == {t[1] : t \in X \cup Y}
         IN  {<<k, Coef(X, k) + Coef(Y, k)>> : k \in {j \in ks : Coef(X, j) + Coef(Y, j) # 0}}

\* range(a, b) and range(a, b, -1) of Python, as sequences
PyRange(a, b) == [i \in 1..(IF b > a THEN b - a ELSE 0) |-> a + i - 1]

PyRangeDown(a, b) == [i \in 1..(IF a > b THEN a - b ELSE 0) |-> a - i + 1]

(***************************************************************************)
(* Environment                                                             *)
(***************************************************************************)
BreadcrumbRadius == 1625    \* 16.25, in hundredths

\* Circle(self._loc, radius = 16.25)
Circle(center) == [center |-> center, radius |-> BreadcrumbRadius]

\* conv_radial without the offset of 90 degrees between the sweep's zero
\* and the heading
conv_radial_no_offset(theta, r, l, d) ==
    LET theta_prime == theta + d
    IN  <<RAdd(RCos(r, theta_prime), l[1]), RAdd(RSin(r, theta_prime), l[2])>>

\* Environment.conv_radial, at location l and direction d
conv_radial(theta, r, l, d) ==
    LET theta_prime == theta - 90 + d
    IN  <<RAdd(RCos(r, theta_prime), l[1]), RAdd(RSin(r, theta_prime), l[2])>>

\* Environment.conv_radial_arr, at location l and direction d: "ValueError"
\* when the lengths differ
conv_radial_arr(thetas, rs, l, d) ==
    IF Len(thetas) # Len(rs) THEN "ValueError"
    ELSE [i \in 1..Len(rs) |->
            <<RAdd(RCos(rs[i], thetas[i] - 90 + d), l[1]),
              RAdd(RSin(rs[i], thetas[i] - 90 + d), l[2])>>]

\* Environment.add_breadcumb: a circle at the current location
add_breadcumb(crumbs, l) == Append(crumbs, Circle(l))

\* Environment.move with the breadcrumb added after the location is set
Environment_move_crumb_after(d) ==
    /\ _loc' = conv_radial(90, d, _loc, _direction)
    /\ breadcrumbs' = add_breadcumb(breadcrumbs, _loc')
    /\ UNCHANGED _direction

\* Environment.move: a breadcrumb at the current location, then the new
\* location
Environment_move(d) ==
    /\ breadcrumbs' = add_breadcumb(breadcrumbs, _loc)
    /\ _loc' = conv_radial(90, d, _loc, _direction)
    /\ UNCHANGED _direction

\* Environment.rotate with the direction normalized to [0, 360)
Environment_rotate_normalized(dl) ==
    /\ _direction' = (_direction + dl) % 360
    /\ UNCHANGED <<_loc, breadcrumbs>>

\* Environment.rotate, through Environment.direction(new_direction)
Environment_rotate(dl) ==
    /\ _direction' = _direction + dl
    /\ UNCHANGED <<_loc, breadcrumbs>>

\* Environment._clear_volatile_contours: its body is a comment
_clear_volatile_contours(vs) == vs

\* finalize_contours that replaces the finalized contours by the volatile
\* ones
Environment_finalize_contours_replace ==
    /\ contours' = volatile_contours
    /\ volatile_contours' = _clear_volatile_contours(volatile_contours)

\* Environment.finalize_contours
Environment_finalize_contours ==
    /\ contours' = contours \o volatile_contours
    /\ volatile_contours' = _clear_volatile_contours(volatile_contours)

\* Environment.add_contour: c is the line object view.plot creates
Environment_add_contour(volatile) ==
    LET c == nplots + 1
    IN  /\ nplots' = c
        /\ IF volatile = TRUE
           THEN volatile_contours' = Append(volatile_contours, c) /\ UNCHANGED contours
           ELSE contours' = Append(contours, c) /\ UNCHANGED volatile_contours

\* Environment.add_danger: writes to sys.stderr and records nothing
Environment_add_danger(danger_id) ==
    /\ stderr' = Append(stderr, danger_id)
    /\ UNCHANGED <<bumps, cliffs, drops, tape>>

Column(arr, c) == [i \in 1..Len(arr) |-> arr[i][c]]

\* Environment.add_scan
Environment_add_scan(scan_data) ==
    LET ir_data == scan_data[1]
        sonar_data == scan_data[2]
    IN  /\ ir_obs' = Append(ir_obs, conv_radial_arr(Column(ir_data, 1), Column(ir_data, 2),
                                                    _loc, _direction))
        /\ sonar_obs' = Append(sonar_obs, conv_radial_arr(Column(sonar_data, 1),
                                                          Column(sonar_data, 1),
                                                          _loc, _direction))

(***************************************************************************)
(* Scanner                                                                 *)
(***************************************************************************)
\* Scanner.add_scan
Scanner_add_scan(ss, scan_data) == Append(ss, scan_data)

min_width == 3     \* minimum degrees for an object to be recognized

\* a < b for floating point values as np.sort orders them: NaN goes last
FloatLess(a, b) == ~isnan(a) /\ (isnan(b) \/ a < b)

\* np.sort of a one-dimensional array
SortCol(col) ==
    LET n == Len(col)
        rank(j) == Cardinality({k \in 1..n : FloatLess(col[k], col[j])})
                   + Cardinality({k \in 1..(j - 1) : col[k] = col[j]}) + 1
    IN  [i \in 1..n |-> col[CHOOSE j \in 1..n : rank(j) = i]]

\* np.sort(arr, axis=0) of a two column array: each column is sorted on
\* its own
np_sort_axis0(arr) ==
    LET c1 == SortCol(Column(arr, 1))
        c2 == SortCol(Column(arr, 2))
    IN  [i \in 1..Len(arr) |-> <<c1[i], c2[i]>>]

\* The scans appended to one another, channel ch (1 is ir, 2 is sonar)
RECURSIVE np_append_all(_, _)
np_append_all(ss, ch) ==
    IF Len(ss) = 0 THEN <<>>
    ELSE np_append_all(SubSeq(ss, 1, Len(ss) - 1), ch) \o ss[Len(ss)][ch]

\* find_obj_clouds: comb_scans after the sort
merge_scans(ss) == <<np_sort_axis0(np_append_all(ss, 1)), np_sort_axis0(np_append_all(ss, 2))>>

\* len(comb_scans[0] - 1): the length of the array with 1 taken from each
\* of its elements
len_of_array_minus_1(arr) == Len(arr)

\* arr[a:b], with the indices of Python
Slice(arr, a, b) == SubSeq(arr, a + 1, IF b < Len(arr) THEN b ELSE Len(arr))

\* Whether the run that started at start_deg and is closed at sample i is
\* wide enough to be an object
wide_enough(ir, i, start_deg) == ir[i + 1][1] - start_deg > min_width

\* The loop of find_obj_clouds from sample i on (i counts from 0).  `open`
\* is `start_deg is not 0`: start_deg is the int 0 until a run starts, and
\* a numpy float, which is never the object 0, while a run is open.  An
\* object is kept with the indices it was cut at.
RECURSIVE obj_loop(_, _, _, _, _, _)
obj_loop(comb, i, open, start_deg, start_deg_index, objs) ==
    LET ir == comb[1]
        sonar == comb[2]
    IN  IF i >= Len(ir) THEN objs
        ELSE IF isnan(ir[i + 1][2]) = FALSE /\ ~open
        THEN obj_loop(comb, i + 1, TRUE, ir[i + 1][1], i, objs)
        ELSE IF (isnan(ir[i + 1][2]) = TRUE \/ i = len_of_array_minus_1(ir)) /\ open
        THEN IF wide_enough(ir, i, start_deg)
             THEN obj_loop(comb, i + 1, FALSE, 0, start_deg_index,
                           Append(objs, [ir |-> Slice(ir, start_deg_index, i),
                                         sonar |-> Slice(sonar, start_deg_index, i),
                                         start_deg_index |-> start_deg_index,
                                         end_deg_index |-> i]))
             ELSE obj_loop(comb, i + 1, FALSE, 0, start_deg_index, objs)
        ELSE obj_loop(comb, i + 1, open, start_deg, start_deg_index, objs)

\* Scanner.find_obj_clouds on the scans ss: the list of objects, or
\* "NotImplementedError" when there are no scans
find_obj_clouds(ss) ==
    IF Len(ss) < 1 THEN "NotImplementedError"
    ELSE obj_loop(merge_scans(ss), 0, FALSE, 0, 0, <<>>)

(***************************************************************************)
(* The collaborators of the Rover: the sensors and the actuator.           *)
(***************************************************************************)
StopIDs == {"full_distance", "bump"}      \* codes.OIStopID

Dists == {100}                \* distances asked of Rover.move
Travelled == {60, 100}        \* distances the actuator reports
Deltas == {-90, 45, 180}      \* angles asked of Rover.rotate
Sweeps == {<<0, 1>>, <<1, 0>>}            \* <<start, end>> of Rover.scan
IrReadings == {NaN, 50}       \* converted ir distances
SonarReadings == {70}         \* converted sonar distances

\* oi.move(sen, dist, speed): the distance travelled and why the rover
\* stopped; the full distance, or less with another stop reason
oi_move(d) ==
    {<<a, r>> \in Travelled \X StopIDs : a <= d /\ ((r = "full_distance") <=> (a = d))}

\* sensors.scan followed by the ir and sonar converters: one row
\* <<angle, distance>> for each angle, in both arrays
sensors_scan(angles) ==
    {<<[i \in 1..Len(angles) |-> <<angles[i], f[i]>>],
       [i \in 1..Len(angles) |-> <<angles[i], g[i]>>]>> :
        f \in [1..Len(angles) -> IrReadings], g \in [1..Len(angles) -> SonarReadings]}

(***************************************************************************)
(* Rover                                                                   *)
(***************************************************************************)
\* Rover.move with the finalize step after the actuator command
MoveBody_finalize_late == <<"oi_move", "finalize", "env_move", "add_danger">>

\* The statements of Rover.move and of Rover.rotate, in program order
MoveBody == <<"finalize", "oi_move", "env_move", "add_danger">>

RotateBody == <<"finalize", "oi_rotate", "env_rotate">>

Body(c) == IF c = "move" THEN MoveBody ELSE IF c = "rotate" THEN RotateBody ELSE <<>>

CurStmt == IF call = "idle" THEN "none" ELSE Body(call)[pc]

Event(op, arg) == [op |-> op, arg |-> arg, loc |-> _loc, dir |-> _direction]

\* After a statement: the next statement, or the return of the method (the
\* event of a return holds the pose the method leaves)
Advance(op, arg) ==
    IF pc = Len(Body(call))
    THEN /\ call' = "idle" /\ pc' = 0
         /\ history' = history \o <<Event(op, arg),
                                     [op |-> "return", arg |-> 0, loc |-> _loc',
                                      dir |-> _direction']>>
    ELSE /\ call' = call /\ pc' = pc + 1
         /\ history' = Append(history, Event(op, arg))

Idle == call = "idle" /\ ncalls < MaxCalls

\* _finalize_for_reorientation that keeps the Scanner in use
_finalize_keep_scanner ==
    /\ UNCHANGED scans
    /\ Environment_finalize_contours

\* Rover._finalize_for_reorientation: a new Scanner, then
\* Environment.finalize_contours
_finalize_for_reorientation ==
    /\ scans' = <<>>
    /\ Environment_finalize_contours

\* rover.move(dist, speed) is called
Rover_move_call ==
    /\ Idle
    /\ \E d \in Dists : dist' = d /\ history' = Append(history, Event("call_move", d))
    /\ call' = "move" /\ pc' = 1 /\ stop_reason' = "none"
    /\ ncalls' = ncalls + 1 /\ raised' = "none"
    /\ UNCHANGED <<env_vars, scans, seg_vars, rv, delta>>

\* rover.rotate(delta) is called
Rover_rotate_call ==
    /\ Idle
    /\ \E d \in Deltas : delta' = d /\ history' = Append(history, Event("call_rotate", d))
    /\ call' = "rotate" /\ pc' = 1
    /\ ncalls' = ncalls + 1 /\ raised' = "none"
    /\ UNCHANGED <<env_vars, scans, seg_vars, rv, dist, stop_reason>>

\* self._finalize_for_reorientation()
Stmt_finalize ==
    /\ CurStmt = "finalize"
    /\ _finalize_for_reorientation
    /\ UNCHANGED <<_loc, _direction, breadcrumbs, bumps, cliffs, drops, tape, ir_obs,
                   sonar_obs, nplots, stderr, seg_vars, raised, rv, dist, stop_reason,
                   delta, ncalls>>
    /\ Advance("finalize", 0)

\* Rover.move keeping the distance it asked for: the distance the actuator
\* reports is dropped
Stmt_oi_move_keep_dist ==
    /\ CurStmt = "oi_move"
    /\ UNCHANGED <<env_vars, scans, seg_vars, raised, rv, delta, ncalls>>
    /\ \E res \in oi_move(dist) :
          /\ dist' = dist /\ stop_reason' = res[2]
          /\ Advance("oi_move", res[1])

\* dist, stop_reason = oi.move(self.sen, dist, speed); the event holds the
\* distance the actuator reported
Stmt_oi_move ==
    /\ CurStmt = "oi_move"
    /\ UNCHANGED <<env_vars, scans, seg_vars, raised, rv, delta, ncalls>>
    /\ \E res \in oi_move(dist) :
          /\ dist' = res[1] /\ stop_reason' = res[2]
          /\ Advance("oi_move", res[1])

\* oi.rotate(self.sen, delta)
Stmt_oi_rotate ==
    /\ CurStmt = "oi_rotate"
    /\ UNCHANGED <<env_vars, scans, seg_vars, raised, rv, dist, stop_reason, delta, ncalls>>
    /\ Advance("oi_rotate", delta)

\* A raising oi.move or oi.rotate that takes the finalized volatile contours
\* back out of the finalized ones
Stmt_oi_raise_rollback ==
    /\ CurStmt \in {"oi_move", "oi_rotate"}
    /\ call' = "idle" /\ pc' = 0 /\ raised' = "Exception"
    /\ history' = Append(history, Event("raise", 0))
    /\ contours' = SubSeq(contours, 1, Len(contours) - Len(volatile_contours))
    /\ UNCHANGED <<_loc, _direction, breadcrumbs, bumps, cliffs, drops, tape, ir_obs,
                   sonar_obs, volatile_contours, nplots, stderr, scans, seg_vars, rv,
                   dist, stop_reason, delta, ncalls>>

\* oi.move or oi.rotate raises (a failed or timed out command): the
\* exception leaves Rover.move or Rover.rotate
Stmt_oi_raise ==
    /\ CurStmt \in {"oi_move", "oi_rotate"}
    /\ call' = "idle" /\ pc' = 0 /\ raised' = "Exception"
    /\ history' = Append(history, Event("raise", 0))
    /\ UNCHANGED <<env_vars, scans, seg_vars, rv, dist, stop_reason, delta, ncalls>>

\* self.env.move(dist)
Stmt_env_move ==
    /\ CurStmt = "env_move"
    /\ Environment_move(dist)
    /\ UNCHANGED <<bumps, cliffs, drops, tape, ir_obs, sonar_obs, contours,
                   volatile_contours, nplots, stderr, scans, seg_vars, raised, rv,
                   dist, stop_reason, delta, ncalls>>
    /\ Advance("env_move", dist)

\* if stop_reason != OIStopID.full_distance: self.env.add_danger(stop_reason)
Stmt_add_danger ==
    /\ CurStmt = "add_danger"
    /\ IF stop_reason # "full_distance"
       THEN Environment_add_danger(stop_reason)
       ELSE UNCHANGED <<stderr, bumps, cliffs, drops, tape>>
    /\ UNCHANGED <<_loc, _direction, breadcrumbs, ir_obs, sonar_obs, contours,
                   volatile_contours, nplots, scans, seg_vars, raised, rv, dist,
                   stop_reason, delta, ncalls>>
    /\ Advance("add_danger", 0)

\* self.env.rotate(delta)
Stmt_env_rotate ==
    /\ CurStmt = "env_rotate"
    /\ Environment_rotate(delta)
    /\ UNCHANGED <<bumps, cliffs, drops, tape, ir_obs, sonar_obs, contours,
                   volatile_contours, nplots, stderr, scans, seg_vars, raised, rv,
                   dist, stop_reason, delta, ncalls>>
    /\ Advance("env_rotate", delta)

\* The angles of a sweep of Rover.scan
scan_angles(start, end) ==
    IF start <= end THEN PyRange(start, end) ELSE PyRangeDown(end, start)

\* The value of a call that returns nothing (a scan is a pair, never empty)
None == <<>>

\* The end of Rover.scan with the two flags taken as alternatives: the scan
\* goes to the Scanner, or else to the Environment
scan_dispatch_exclusive(data, updt_scan, updt_env) ==
    IF updt_scan = FALSE /\ updt_env = FALSE
    THEN rv' = data /\ UNCHANGED <<scans, ir_obs, sonar_obs>>
    ELSE /\ rv' = None
         /\ IF updt_scan = TRUE
            THEN scans' = Scanner_add_scan(scans, data) /\ UNCHANGED <<ir_obs, sonar_obs>>
            ELSE Environment_add_scan(data) /\ UNCHANGED scans

\* The end of Rover.scan: rv is returned, or passed to the Scanner and to
\* the Environment as the flags say
scan_dispatch(data, updt_scan, updt_env) ==
    IF updt_scan = FALSE /\ updt_env = FALSE
    THEN rv' = data /\ UNCHANGED <<scans, ir_obs, sonar_obs>>
    ELSE /\ rv' = None
         /\ IF updt_scan = TRUE
            THEN scans' = Scanner_add_scan(scans, data)
            ELSE UNCHANGED scans
         /\ IF updt_env = TRUE
            THEN Environment_add_scan(data)
            ELSE UNCHANGED <<ir_obs, sonar_obs>>

\* Rover.scan(start, end, updt_scan, updt_env)
Rover_scan ==
    /\ Idle
    /\ \E sw \in Sweeps, updt_scan \in BOOLEAN, updt_env \in BOOLEAN :
         LET angles == scan_angles(sw[1], sw[2])
         IN  \E data \in sensors_scan(angles) :
                /\ scan_dispatch(data, updt_scan, updt_env)
                /\ history' = Append(history,
                                     Event("scan", [start |-> sw[1], end |-> sw[2],
                                                    angles |-> angles, data |-> data,
                                                    updt_scan |-> updt_scan,
                                                    updt_env |-> updt_env]))
    /\ ncalls' = ncalls + 1 /\ raised' = "none"
    /\ UNCHANGED <<_loc, _direction, breadcrumbs, bumps, cliffs, drops, tape, contours,
                   volatile_contours, nplots, stderr, seg_vars, ctl_vars>>

\* rover.env.add_contour(xs, ys, volatile)
Env_add_contour ==
    /\ Idle
    /\ \E volatile \in BOOLEAN : Environment_add_contour(volatile)
    /\ history' = Append(history, Event("add_contour", 0))
    /\ ncalls' = ncalls + 1 /\ raised' = "none"
    /\ UNCHANGED <<_loc, _direction, breadcrumbs, bumps, cliffs, drops, tape, ir_obs,
                   sonar_obs, stderr, scans, seg_vars, rv, ctl_vars>>

\* rover.env.finalize_contours()
Env_finalize_contours ==
    /\ Idle
    /\ Environment_finalize_contours
    /\ history' = Append(history, Event("finalize_contours", 0))
    /\ ncalls' = ncalls + 1 /\ raised' = "none"
    /\ UNCHANGED <<_loc, _direction, breadcrumbs, bumps, cliffs, drops, tape, ir_obs,
                   sonar_obs, nplots, stderr, scans, seg_vars, rv, ctl_vars>>

(***************************************************************************)
(* The Rover after construction, and its runs.                             *)
(***************************************************************************)
\* Environment.__init__
Environment_init ==
    /\ _loc = <<Zero, Zero>> /\ _direction = 90
    /\ breadcrumbs = <<>>
    /\ bumps = <<>> /\ cliffs = <<>> /\ drops = <<>> /\ tape = <<>>
    /\ ir_obs = <<>> /\ sonar_obs = <<>>
    /\ contours = <<>> /\ volatile_contours = <<>> /\ nplots = 0
    /\ stderr = <<>>

\* Nothing has been called yet
Control_init ==
    /\ comb_scans = <<>> /\ obj_list = <<>>
    /\ raised = "none" /\ rv = None
    /\ call = "idle" /\ pc = 0
    /\ dist = 0 /\ stop_reason = "none" /\ delta = 0
    /\ ncalls = 0
    /\ history = <<>>

\* Rover.__init__: an Environment and a Scanner without scans
Init ==
    /\ Environment_init
    /\ scans = <<>>
    /\ Control_init

Next ==
    \/ Rover_move_call
    \/ Rover_rotate_call
    \/ Stmt_finalize
    \/ Stmt_oi_move
    \/ Stmt_oi_rotate
    \/ Stmt_oi_raise
    \/ Stmt_env_move
    \/ Stmt_add_danger
    \/ Stmt_env_rotate
    \/ Rover_scan
    \/ Env_add_contour
    \/ Env_finalize_contours

Spec == Init /\ [][Next]_vars

(***************************************************************************)
(* The Scanner on its own: scans are added to it and find_obj_clouds is    *)
(* run on what it holds.                                                   *)
(***************************************************************************)
SegAngles == {10, 12, 20}

\* The <<ir, sonar>> readings of one sample: each channel has the
\* no-return reading and two different distances
SegReadings == {<<NaN, 70>>, <<50, NaN>>, <<52, 71>>}

\* The angles of one sweep: ascending or descending
SweepAngles(n) ==
    {a \in [1..n -> SegAngles] :
        \/ \A i \in 1..(n - 1) : a[i] < a[i + 1]
        \/ \A i \in 1..(n - 1) : a[i] > a[i + 1]}

\* The scans of n samples
SegBatches(n) ==
    {<<[i \in 1..n |-> <<a[i], r[i][1]>>], [i \in 1..n |-> <<a[i], r[i][2]>>]>> :
        a \in SweepAngles(n), r \in [1..n -> SegReadings]}

\* The scan of the documented scenario: ir angles 10..50 with
\* readings gap, 5.0, 5.2, 5.1, gap (distances in tenths)
ScenarioScan ==
    <<  <<  <<10, NaN>>, <<20, 50>>, <<30, 52>>, <<40, 51>>, <<50, NaN>>  >>,
        <<  <<10, 70>>, <<20, 70>>, <<30, 71>>, <<40, 72>>, <<50, 70>>  >>  >>

\* The same sweep without its last sample: the run of readings ends the scan
ScenarioOpenScan ==
    <<  <<  <<10, NaN>>, <<20, 50>>, <<30, 50>>, <<40, 50>>  >>,
        <<  <<10, 70>>, <<20, 70>>, <<30, 71>>, <<40, 72>>  >>  >>

Found == history # <<>> /\ history[Len(history)].op = "find_obj_clouds"

SegInit ==
    /\ Environment_init
    /\ scans \in {<<>>, <<ScenarioScan>>, <<ScenarioOpenScan>>}
    /\ Control_init

\* rover.scanner.add_scan(scan_data)
Seg_add_scan ==
    /\ Len(scans) < MaxBatches
    /\ \E n \in 1..MaxBatchLen : \E b \in SegBatches(n) : scans' = Scanner_add_scan(scans, b)
    /\ history' = Append(history, Event("add_scan", 0))
    /\ raised' = "none"
    /\ UNCHANGED <<env_vars, seg_vars, rv, ctl_vars, ncalls>>

\* rover.scanner.find_obj_clouds()
Seg_find_obj_clouds ==
    /\ ~Found
    /\ LET res == find_obj_clouds(scans)
       IN  IF Len(scans) < 1
           THEN raised' = res /\ UNCHANGED seg_vars
           ELSE raised' = "none" /\ comb_scans' = merge_scans(scans) /\ obj_list' = res
    /\ history' = Append(history, Event("find_obj_clouds", 0))
    /\ UNCHANGED <<env_vars, scans, rv, ctl_vars, ncalls>>

SegNext == Seg_add_scan \/ Seg_find_obj_clouds

SegSpec == SegInit /\ [][SegNext]_vars

(***************************************************************************)
(* Reading the log of a run.                                               *)
(***************************************************************************)
CallOps == {"call_move", "call_rotate"}
ActuatorOps == {"oi_move", "oi_rotate"}
PoseOps == {"env_move", "env_rotate"}
FinalizeOps == {"finalize", "finalize_contours"}

\* The pose before event k, or the current pose when k is past the log
PoseAt(k) ==
    IF k <= Len(history) THEN <<history[k].loc, history[k].dir>> ELSE <<_loc, _direction>>

\* The last event of the call that starts at event c
CallEnd(c) ==
    LET ends == {e \in (c + 1)..Len(history) : history[e].op \in {"return", "raise"}}
    IN  IF ends = {} THEN Len(history) ELSE CHOOSE e \in ends : \A f \in ends : e <= f

\* The event at which the call that starts at c completes its finalize
\* step, or one past the call's events when it has not
FinalizeOf(c) ==
    LET fs == {f \in (c + 1)..CallEnd(c) : history[f].op = "finalize"}
    IN  IF fs = {} THEN CallEnd(c) + 1 ELSE CHOOSE f \in fs : \A g \in fs : f <= g

\* The step appends event `op` to the log
Does(op) == Len(history') > Len(history) /\ history'[Len(history) + 1].op = op

\* The calls of Rover.move that have returned, and the k-th of them
CompletedMoves ==
    {c \in 1..Len(history) : history[c].op = "call_move" /\ history[CallEnd(c)].op = "return"}

KthCompletedMove(k) ==
    CHOOSE c \in CompletedMoves : Cardinality({d \in CompletedMoves : d <= c}) = k

\* The integer n as a real
Whole(n) == IF n = 0 THEN Zero ELSE {<<0, n>>}

RECURSIVE SumRotations(_)
SumRotations(h) ==
    IF Len(h) = 0 THEN 0
    ELSE SumRotations(SubSeq(h, 1, Len(h) - 1))
         + (IF h[Len(h)].op = "env_rotate" THEN h[Len(h)].arg ELSE 0)

(***************************************************************************)
(* Claims about the Rover and its Environment (specification Spec).        *)
(***************************************************************************)

\* C1: in every Rover.move and Rover.rotate, the finalize step (a new
\* Scanner, then finalize_contours) has completed before the actuator
\* command is issued and before the Environment's pose changes: the pose is
\* the one the call started with until the finalize step is over.
C1_FinalizeBeforeReorientation ==
    \A c \in 1..Len(history) :
        history[c].op \in CallOps =>
            /\ \A i \in (c + 1)..CallEnd(c) :
                  history[i].op \in ActuatorOps \cup PoseOps => FinalizeOf(c) < i
            /\ \A k \in c..(FinalizeOf(c) + 1) :
                  k <= CallEnd(c) + 1 => PoseAt(k) = PoseAt(c)

\* A move has run to its end and has changed the location
C1_Witness ==
    /\ call = "idle"
    /\ \E i \in 1..Len(history) : history[i].op = "env_move" /\ PoseAt(i + 1) # PoseAt(i)
    /\ \E i \in 1..Len(history) : history[i].op = "env_rotate" /\ PoseAt(i + 1) # PoseAt(i)

\* Contours have been finalized and no scan or contour was added since
CleanSinceFinalize ==
    \E i \in 1..Len(history) :
        /\ history[i].op \in FinalizeOps
        /\ \A k \in (i + 1)..Len(history) : history[k].op \notin {"scan", "add_contour"}

\* C2: finalize_contours() is idempotent: called again with no scan or
\* add_contour in between, it leaves the finalized contours as the first
\* call left them.
C2_FinalizeIdempotent ==
    [][(CleanSinceFinalize /\ (Does("finalize") \/ Does("finalize_contours")))
          => contours' = contours]_vars

\* C3: after finalize_contours() the volatile contours are empty and the
\* finalized contours are the previous ones followed by the previously
\* volatile ones; so no volatile contour is left after a Rover.move or
\* Rover.rotate.
C3_FinalizeClearsVolatile ==
    [][/\ (Does("finalize") \/ Does("finalize_contours")) =>
            /\ volatile_contours' = <<>>
            /\ contours' = contours \o volatile_contours
       /\ (call # "idle" /\ call' = "idle" /\ raised' = "none") => volatile_contours' = <<>>
      ]_vars

\* C4: one breadcrumb for each completed move and none for anything else:
\* between calls there are as many breadcrumbs as completed moves, and the
\* k-th is at the location the rover had right before the k-th move.
C4_OneBreadcrumbPerMove ==
    call = "idle" =>
        /\ Len(breadcrumbs) = Cardinality(CompletedMoves)
        /\ \A k \in 1..Len(breadcrumbs) :
              breadcrumbs[k].center = history[KthCompletedMove(k)].loc

\* Two moves have left two breadcrumbs at different places, the second
\* after a move that stopped early
C4_Witness ==
    /\ call = "idle"
    /\ Len(breadcrumbs) = 2
    /\ breadcrumbs[1].center = <<Zero, Zero>>
    /\ breadcrumbs[2].center = <<Zero, Whole(60)>>
    /\ \E i \in 1..Len(history) : history[i].op \in {"scan", "call_rotate"}

\* C5: Environment.move(d) moves the location by d along the heading and
\* keeps the heading: new location = old + d * (cos(heading),
\* sin(heading)); from (0,0) at heading 90, move(100) ends at (0,100), and
\* at headings 0 / 180 / 270 the displacement is (d,0) / (-d,0) / (0,-d).
C5_MoveAlongHeading ==
    [][Does("env_move") =>
          /\ _direction' = _direction
          /\ _loc' = <<RAdd(_loc[1], RCos(dist, _direction)),
                       RAdd(_loc[2], RSin(dist, _direction))>>
          /\ (_loc = <<Zero, Zero>> /\ _direction = 90 /\ dist = 100)
                => _loc' = <<Zero, Whole(100)>>
          /\ _direction = 90 => _loc' = <<_loc[1], RAdd(_loc[2], Whole(dist))>>
          /\ _direction = 0 => _loc' = <<RAdd(_loc[1], Whole(dist)), _loc[2]>>
          /\ _direction = 180 => _loc' = <<RAdd(_loc[1], Whole(-dist)), _loc[2]>>
          /\ _direction = 270 => _loc' = <<_loc[1], RAdd(_loc[2], Whole(-dist))>>
      ]_vars

\* The rover has moved at heading 180 and ended left of the origin
C5_Witness ==
    /\ call = "idle"
    /\ _direction = 180
    /\ _loc \in {<<Whole(-100), Zero>>, <<Whole(-60), Zero>>}
    /\ Len(breadcrumbs) = 1

\* C6: Environment.rotate(delta) sets the heading to old heading + delta,
\* without normalisation (the heading is 90 plus the sum of all deltas and
\* may leave 0..360), and keeps the location and the breadcrumbs.
C6_RotateAddsDelta ==
    /\ [](_direction = 90 + SumRotations(history))
    /\ [][Does("env_rotate") =>
             /\ _direction' = _direction + delta
             /\ (_direction = 90 /\ delta = 45) => _direction' = 135
             /\ _loc' = _loc
             /\ breadcrumbs' = breadcrumbs
         ]_vars

\* Two rotations by 180 from the initial heading: the heading is 450
C6_Witness == call = "idle" /\ _direction = 450 /\ SumRotations(history) = 360

\* The event the step appends to the log
NewEvent == history'[Len(history) + 1]

\* The last event `op` of the log, or 0
LastOf(op) ==
    LET is == {i \in 1..Len(history) : history[i].op = op}
    IN  IF is = {} THEN 0 ELSE CHOOSE i \in is : \A j \in is : j <= i

\* C11: the flags of Rover.scan are independent: the scan is appended to
\* the Scanner iff updt_scan, it is added to the Environment's point cloud
\* iff updt_env, and it is returned iff both are false (and then nothing is
\* modified); with both set it reaches both.
C11_ScanFlagsIndependent ==
    [][Does("scan") =>
          LET a == NewEvent.arg
          IN  /\ scans' = (IF a.updt_scan THEN Append(scans, a.data) ELSE scans)
              /\ Len(ir_obs') = Len(ir_obs) + (IF a.updt_env THEN 1 ELSE 0)
              /\ Len(sonar_obs') = Len(sonar_obs) + (IF a.updt_env THEN 1 ELSE 0)
              /\ SubSeq(ir_obs', 1, Len(ir_obs)) = ir_obs
              /\ SubSeq(sonar_obs', 1, Len(sonar_obs)) = sonar_obs
              /\ a.updt_env =>
                    /\ Len(ir_obs'[Len(ir_obs')]) = Len(a.data[1])
                    /\ Len(sonar_obs'[Len(sonar_obs')]) = Len(a.data[2])
              /\ rv' = (IF ~a.updt_scan /\ ~a.updt_env THEN a.data ELSE None)
      ]_vars

\* A scan of one sample with both flags set is in the Scanner and in the
\* point cloud, and was not returned
C11_Witness ==
    /\ history # <<>>
    /\ LET e == history[Len(history)]
       IN  /\ e.op = "scan"
           /\ e.arg.updt_scan /\ e.arg.updt_env
           /\ Len(e.arg.data[1]) = 1
           /\ scans = <<e.arg.data>>
           /\ Len(ir_obs) = 1 /\ Len(ir_obs[1]) = 1
           /\ rv = None

\* C12: Rover.scan(start, end) asks for ascending angles from start when
\* start <= end and for descending angles from start when start > end; when
\* start # end there is at least one angle and the first one is start.
C12_SweepEitherDirection ==
    \A i \in 1..Len(history) :
        history[i].op = "scan" =>
            LET a == history[i].arg
            IN  /\ a.start <= a.end =>
                      \A j \in 1..Len(a.angles) :
                          a.angles[j] = a.start + j - 1 /\ a.angles[j] < a.end
                /\ a.start > a.end =>
                      \A j \in 1..Len(a.angles) :
                          a.angles[j] = a.start - j + 1 /\ a.angles[j] > a.end
                /\ a.start # a.end => Len(a.angles) >= 1 /\ a.angles[1] = a.start

\* The entries of the danger log
DangerCount == Len(bumps) + Len(cliffs) + Len(drops) + Len(tape)

\* C13: a Rover.move that ends with a stop reason other than the full
\* distance adds exactly one entry to the danger log (bumps, cliffs, drops,
\* tape); with the full distance the log is unchanged.
C13_DangerRecorded ==
    [][Does("add_danger") =>
          DangerCount' = DangerCount + (IF stop_reason # "full_distance" THEN 1 ELSE 0)
      ]_vars

\* The points of the samples of arr seen from location l at heading d:
\* (radius*cos(angle - 90 + d) + x, radius*sin(angle - 90 + d) + y)
Projected(arr, l, d) ==
    [i \in 1..Len(arr) |->
        <<RAdd(RCos(arr[i][2], arr[i][1] - 90 + d), l[1]),
          RAdd(RSin(arr[i][2], arr[i][1] - 90 + d), l[2])>>]

\* C14: Environment.add_scan appends, for each channel, one entry: the
\* points of that channel's samples, each from its own angle and its own
\* radius at the current pose; earlier entries are unchanged.
C14_AddScanProjectsBothChannels ==
    [][(Does("scan") /\ NewEvent.arg.updt_env) =>
          /\ ir_obs' = Append(ir_obs, Projected(NewEvent.arg.data[1], _loc, _direction))
          /\ sonar_obs' = Append(sonar_obs, Projected(NewEvent.arg.data[2], _loc, _direction))
      ]_vars

\* C15: every Environment.add_scan replaces the volatile contours: none of
\* the volatile contours from before it remains.
C15_VolatileReplacedOnScan ==
    [][(Does("scan") /\ NewEvent.arg.updt_env) =>
          \A i \in 1..Len(volatile_contours) :
              \A j \in 1..Len(volatile_contours') :
                  volatile_contours'[j] # volatile_contours[i]
      ]_vars

\* The scans passed to the Scanner since the last finalize step of a
\* Rover.move or Rover.rotate
ScansSinceReorientation ==
    LET recent == SubSeq(history, LastOf("finalize") + 1, Len(history))
        kept == SelectSeq(recent, LAMBDA e : e.op = "scan" /\ e.arg.updt_scan)
    IN  [i \in 1..Len(kept) |-> kept[i].arg.data]

\* C18: every Rover.move and Rover.rotate starts a fresh Scanner: right
\* after one the Scanner holds no scan, and at any time it holds exactly the
\* scans accumulated since the most recent one.
C18_FreshScannerOnReorientation ==
    /\ scans = ScansSinceReorientation
    /\ (history # <<>> /\ history[Len(history)].op \in {"finalize", "return", "raise"})
          => scans = <<>>

\* A scan was accumulated before a rotation and one after it: the Scanner
\* holds the second one only
C18_Witness ==
    /\ call = "idle"
    /\ Len(scans) = 1
    /\ LastOf("return") > 0
    /\ Cardinality({i \in 1..Len(history) :
                       history[i].op = "scan" /\ history[i].arg.updt_scan
                       /\ Len(history[i].arg.data[1]) = 1}) = 2

\* C19: the finalized contours only grow: what they were stays a prefix of
\* what they are.
C19_FinalizedAppendOnly ==
    [][/\ Len(contours') >= Len(contours)
       /\ SubSeq(contours', 1, Len(contours)) = contours]_vars

\* A contour added as final, then a volatile one finalized after it
C19_Witness ==
    /\ contours = <<1, 2>>
    /\ volatile_contours = <<2>>
    /\ LastOf("finalize") > 0 \/ LastOf("finalize_contours") > 0

\* C20: Rover.move moves the pose by the distance the actuator reported,
\* not by the distance asked for, and leaves its breadcrumb, whatever the
\* stop reason.
C20_MoveByReportedDistance ==
    [][Does("env_move") =>
          LET reported == history[LastOf("oi_move")].arg
          IN  /\ LastOf("oi_move") > LastOf("call_move")
              /\ _loc' = <<RAdd(_loc[1], RCos(reported, _direction)),
                           RAdd(_loc[2], RSin(reported, _direction))>>
              /\ breadcrumbs' = Append(breadcrumbs, Circle(_loc))
      ]_vars

\* A move of 100 was asked for, the actuator stopped at 60 with a bump, and
\* the rover is 60 ahead of the origin
C20_Witness ==
    /\ call = "idle"
    /\ LastOf("call_move") > 0 /\ history[LastOf("call_move")].arg = 100
    /\ LastOf("oi_move") > 0 /\ history[LastOf("oi_move")].arg = 60
    /\ stop_reason = "bump"
    /\ _loc = <<Zero, Whole(60)>>
    /\ Len(breadcrumbs) = 1

\* C21: when oi.move or oi.rotate raises inside Rover.move or Rover.rotate,
\* the location, the heading and the breadcrumbs are those of the call's
\* start and no danger is recorded, while the finalize step stays done: the
\* Scanner is a new, empty one and the volatile contours of the call's start
\* are at the end of the finalized contours.
C21_FailedCommandKeepsFinalize ==
    [][/\ Does("finalize") =>
             /\ history[Len(history)].op \in {"call_move", "call_rotate"}
             /\ scans' = <<>>
             /\ contours' = contours \o volatile_contours
             /\ UNCHANGED <<_loc, _direction, breadcrumbs, stderr>>
             /\ DangerCount' = DangerCount
       /\ Does("raise") =>
             /\ history[Len(history)].op = "finalize"
             /\ _loc' = history[Len(history) - 1].loc
             /\ _direction' = history[Len(history) - 1].dir
             /\ call' = "idle" /\ raised' = "Exception"
             /\ scans' = <<>>
             /\ UNCHANGED <<_loc, _direction, breadcrumbs, stderr, contours>>
             /\ DangerCount' = DangerCount
      ]_vars

\* A move was called with a scan in the Scanner and a volatile contour
\* drawn, and its oi.move raised: the rover is where it was, without a
\* breadcrumb, the Scanner is empty and the contour is finalized
C21_Witness ==
    /\ call = "idle" /\ raised = "Exception"
    /\ Len(history) = 5
    /\ history[Len(history)].op = "raise"
    /\ history[3].op = "call_move"
    /\ \E i \in 1..2 : history[i].op = "scan" /\ history[i].arg.updt_scan
    /\ \E i \in 1..2 : history[i].op = "add_contour"
    /\ scans = <<>>
    /\ contours = <<1>> /\ volatile_contours = <<1>>
    /\ _loc = <<Zero, Zero>> /\ _direction = 90
    /\ breadcrumbs = <<>> /\ stderr = <<>>

(***************************************************************************)
(* Claims about the Scanner (specification SegSpec).                       *)
(***************************************************************************)

\* The rows of arr ordered by angle, rows of equal angle in the order they
\* have in arr
StableSortRows(arr) ==
    LET n == Len(arr)
        rank(j) == Cardinality({k \in 1..n : arr[k][1] < arr[j][1]})
                   + Cardinality({k \in 1..(j - 1) : arr[k][1] = arr[j][1]}) + 1
    IN  [i \in 1..n |-> arr[CHOOSE j \in 1..n : rank(j) = i]]

\* The ir samples accumulated, in order of angle
MergedSamples == StableSortRows(np_append_all(scans, 1))

\* The runs <<a, b>> of readings of a sequence of samples that have a
\* no-return sample right before and right after them
DelimitedRuns(m) ==
    {ab \in (1..Len(m)) \X (1..Len(m)) :
        /\ 1 < ab[1] /\ ab[1] <= ab[2] /\ ab[2] < Len(m)
        /\ isnan(m[ab[1] - 1][2]) /\ isnan(m[ab[2] + 1][2])
        /\ \A i \in ab[1]..ab[2] : ~isnan(m[i][2])}

\* C7: find_obj_clouds emits no cluster whose span, the angle of its last
\* sample minus the angle of its first, is 3 degrees or less; the clusters
\* are disjoint index ranges in ascending order of start angle.
C7_ClustersWideDisjointAscending ==
    \A k \in 1..Len(obj_list) :
        LET o == obj_list[k]
        IN  /\ Len(o.ir) >= 1
            /\ o.ir[Len(o.ir)][1] - o.ir[1][1] > 3
            /\ \A j \in (k + 1)..Len(obj_list) :
                  /\ o.end_deg_index <= obj_list[j].start_deg_index
                  /\ o.ir[1][1] <= obj_list[j].ir[1][1]

\* C8: a run of ir readings with a no-return sample on each side and a
\* span above 3 degrees gives exactly one cluster, made of the run's
\* samples; angles 10..50 with readings gap, 5.0, 5.2, 5.1, gap give one
\* cluster, the samples at 20, 30 and 40.
C8_DelimitedRunIsOneCluster ==
    (Found /\ raised = "none") =>
        /\ \A ab \in DelimitedRuns(MergedSamples) :
              LET run == SubSeq(MergedSamples, ab[1], ab[2])
              IN  run[Len(run)][1] - run[1][1] > 3 =>
                      Cardinality({k \in 1..Len(obj_list) : obj_list[k].ir = run}) = 1
        /\ scans = <<ScenarioScan>> =>
              /\ Len(obj_list) = 1
              /\ obj_list[1].ir = <<  <<20, 50>>, <<30, 52>>, <<40, 51>>  >>

\* How many times row occurs in the sequence m
Count(m, row) == Cardinality({i \in 1..Len(m) : m[i] = row})

\* C9: the merged scans are, for each channel, in ascending order of angle,
\* and the samples of one angle are in the order they were captured in
\* (they are compared where the merged scans hold the captured samples of
\* that angle, each as often as it was captured).
C9_MergeSortedAndStable ==
    (Found /\ raised = "none") =>
        \A ch \in {1, 2} :
            LET m == comb_scans[ch]
                captured == np_append_all(scans, ch)
            IN  /\ \A i \in 1..(Len(m) - 1) : m[i][1] <= m[i + 1][1]
                /\ \A a \in SegAngles :
                      LET ma == SelectSeq(m, LAMBDA row : row[1] = a)
                          ca == SelectSeq(captured, LAMBDA row : row[1] = a)
                      IN  (\A i \in 1..Len(ca) : Count(ma, ca[i]) = Count(ca, ca[i]))
                              => ma = ca

\* C10: on a Scanner without scans, or with no-return ir readings only,
\* find_obj_clouds returns an empty list and raises nothing.
C10_EmptyOrAllGapGivesNoCluster ==
    (Found /\ \A i \in 1..Len(scans) : \A j \in 1..Len(scans[i][1]) : isnan(scans[i][1][j][2]))
        => raised = "none" /\ obj_list = <<>>

\* The index where the run of readings that ends a sequence of samples
\* starts
OpenRunStart(m) ==
    CHOOSE a \in 1..Len(m) :
        /\ \A i \in a..Len(m) : ~isnan(m[i][2])
        /\ a > 1 => isnan(m[a - 1][2])

\* C16: a run of ir readings that ends the merged sequence is flushed by the
\* width test of a closed run: it gives a cluster when it spans more than 3
\* degrees and none when it does not; angles 10..40 with readings gap, 5, 5,
\* 5 give one cluster, the samples at 20, 30 and 40.
C16_OpenRunFlushedAtEnd ==
    (Found /\ raised = "none") =>
        LET m == MergedSamples
        IN  /\ (m # <<>> /\ ~isnan(m[Len(m)][2])) =>
                  LET run == SubSeq(m, OpenRunStart(m), Len(m))
                      clusters == {k \in 1..Len(obj_list) : obj_list[k].ir = run}
                  IN  IF run[Len(run)][1] - run[1][1] > 3
                      THEN Cardinality(clusters) = 1
                      ELSE clusters = {}
            /\ scans = <<ScenarioOpenScan>> =>
                  /\ Len(obj_list) = 1
                  /\ obj_list[1].ir = <<  <<20, 50>>, <<30, 50>>, <<40, 50>>  >>

\* C17: for each channel the merged scan holds the captured samples, each
\* <<angle, radius>> pair as often as it was captured.
C17_MergeKeepsSamplesWhole ==
    (Found /\ raised = "none") =>
        \A ch \in {1, 2} :
            LET m == comb_scans[ch]
                captured == np_append_all(scans, ch)
            IN  /\ Len(m) = Len(captured)
                /\ \A i \in 1..Len(captured) : Count(m, captured[i]) = Count(captured, captured[i])

====
